---- MODULE Spec2Model ----
(***************************************************************************)
(* The transit backend's key lifecycle paths: export/<type>/<name>[/<v>],  *)
(* import/<name> and restore.  The three request handlers are modelled as  *)
(* they are written; the lock manager (GetPolicyShared, RestorePolicy) and *)
(* the keysutil helpers they call are modelled from their contract.        *)
(***************************************************************************)
EXTENDS Integers, Sequences, FiniteSets, TLC

\* Highest key version that appears in a snapshot.
MaxVersion == 2

Names == {"k1", "k2"}

(***************************************************************************)
(* Strings that the code takes apart are sequences of one-character        *)
(* strings; a []byte is a sequence of byte values.                         *)
(***************************************************************************)
Digits == <<"0", "1", "2", "3", "4", "5", "6", "7", "8", "9">>

IsDigit(ch) == \E i \in 1..10 : Digits[i] = ch

DigitVal(ch) == (CHOOSE i \in 1..10 : Digits[i] = ch) - 1

RECURSIVE DigitsVal(_)
DigitsVal(s) ==
    IF s = <<>> THEN 0
    ELSE DigitsVal(SubSeq(s, 1, Len(s) - 1)) * 10 + DigitVal(s[Len(s)])

\* strconv.Atoi: an optional sign, then one or more decimal digits.
Atoi(s) ==
    LET signed == s # <<>> /\ s[1] \in {"+", "-"}
        body == IF signed THEN Tail(s) ELSE s
    IN  IF body = <<>> \/ \E i \in 1..Len(body) : ~IsDigit(body[i])
        THEN [ok |-> FALSE, val |-> 0]
        ELSE [ok |-> TRUE,
              val |-> IF signed /\ s[1] = "-" THEN 0 - DigitsVal(body)
                      ELSE DigitsVal(body)]

RECURSIVE NatStr(_)
NatStr(n) ==
    IF n < 10 THEN <<Digits[n + 1]>>
    ELSE NatStr(n \div 10) \o <<Digits[(n % 10) + 1]>>

\* strconv.Itoa
Itoa(n) == IF n < 0 THEN <<"-">> \o NatStr(0 - n) ELSE NatStr(n)

\* strings.TrimPrefix
TrimPrefix(s, prefix) ==
    IF Len(s) >= Len(prefix) /\ SubSeq(s, 1, Len(prefix)) = prefix
    THEN SubSeq(s, Len(prefix) + 1, Len(s))
    ELSE s

latest == <<"l", "a", "t", "e", "s", "t">>

(***************************************************************************)
(* Export classes and key types.                                           *)
(***************************************************************************)
exportTypeEncryptionKey == "encryption-key"
exportTypeSigningKey == "signing-key"
exportTypeHMACKey == "hmac-key"
exportTypeAll == "all"

KeyType_AES256_GCM96 == "aes256-gcm96"
KeyType_ECDSA_P256 == "ecdsa-p256"
KeyType_ED25519 == "ed25519"
KeyType_RSA2048 == "rsa-2048"
KeyType_RSA4096 == "rsa-4096"

KeyTypes ==
    {KeyType_AES256_GCM96, KeyType_ECDSA_P256, KeyType_ED25519,
     KeyType_RSA2048, KeyType_RSA4096}

EncryptionSupported(kt) ==
    kt \in {KeyType_AES256_GCM96, KeyType_RSA2048, KeyType_RSA4096}

SigningSupported(kt) ==
    kt \in {KeyType_ECDSA_P256, KeyType_ED25519, KeyType_RSA2048, KeyType_RSA4096}

(***************************************************************************)
(* Policies and key entries.                                               *)
(***************************************************************************)
NoPolicy == [Name |-> "nil"]

\* The key material of version v of a key of type kt: the payload field of
\* the family is populated, the others are empty.
KeyEntry(kt, v) ==
    [CreationTime |-> [sec |-> 10 + v, frac |-> IF v % 2 = 0 THEN <<>> ELSE <<"0", Digits[v + 1]>>],
     Key |-> IF kt \in {KeyType_AES256_GCM96, KeyType_ED25519}
             THEN <<200 + v, 0, v>> ELSE <<>>,
     HMACKey |-> <<255, v>>,
     RSAKey |-> IF kt \in {KeyType_RSA2048, KeyType_RSA4096}
                THEN <<48, 130, v>> ELSE <<>>,
     EC_D |-> IF kt = KeyType_ECDSA_P256 THEN <<7, 128 + v>> ELSE <<>>]

Policy(name, kt, derived, exportable, deletionAllowed, minDec, minEnc, latestVersion, versions) ==
    [Name |-> name,
     Type |-> kt,
     Derived |-> derived,
     Exportable |-> exportable,
     DeletionAllowed |-> deletionAllowed,
     MinDecryptionVersion |-> minDec,
     MinEncryptionVersion |-> minEnc,
     LatestVersion |-> latestVersion,
     Keys |-> [v \in versions |-> KeyEntry(kt, v)]]

(***************************************************************************)
(* Responses.  A handler returns (response, error); msg is the text of the *)
(* error response, kind tells the shape of what came back.                 *)
(***************************************************************************)
NoData == [none |-> TRUE]

ErrorResponse(msg) == [kind |-> "error", msg |-> msg, data |-> NoData]

InternalError(msg) == [kind |-> "internal", msg |-> msg, data |-> NoData]

EmptyResponse == [kind |-> "empty", msg |-> "", data |-> NoData]

Panic(msg) == [kind |-> "panic", msg |-> msg, data |-> NoData]

DataResponse(kind, data) == [kind |-> kind, msg |-> "", data |-> data]

InvalidExportType == "invalid export type"
NotExportable == "key is not exportable"
EncryptionNotSupported == "encryption not supported for the key"
SigningNotSupported == "signing not supported for the key"
InvalidKeyVersion == "invalid key version"
BelowMinimumVersion == "version for export is below minimun decryption version"
VersionNotFound == "version does not exist or cannot be found"
UnknownKeyType == "unknown key type"
AlreadyExists == "key already exists"
StorageError == "storage error"

(***************************************************************************)
(* Export.                                                                 *)
(***************************************************************************)
Base64(bytes) == <<"base64", bytes>>

EncodeRSAPrivateKey(key) == <<"RSA PRIVATE KEY", key>>

KeyEntryToECPrivateKey(key, curve) == <<"EC PRIVATE KEY", curve, key.EC_D>>

\* getExportKey whose encryption case knows RSA-2048 only.
getExportKey_NoRSA4096(policy, key, exportType) ==
    IF policy = NoPolicy THEN [ok |-> FALSE, val |-> "nil policy provided"]
    ELSE IF exportType = exportTypeHMACKey
    THEN [ok |-> TRUE, val |-> Base64(key.HMACKey)]
    ELSE IF exportType = exportTypeEncryptionKey /\ policy.Type = KeyType_AES256_GCM96
    THEN [ok |-> TRUE, val |-> Base64(key.Key)]
    ELSE IF exportType = exportTypeEncryptionKey /\ policy.Type = KeyType_RSA2048
    THEN [ok |-> TRUE, val |-> EncodeRSAPrivateKey(key.RSAKey)]
    ELSE IF exportType = exportTypeSigningKey /\ policy.Type = KeyType_ECDSA_P256
    THEN [ok |-> TRUE, val |-> KeyEntryToECPrivateKey(key, "P256")]
    ELSE IF exportType = exportTypeSigningKey /\ policy.Type = KeyType_ED25519
    THEN [ok |-> TRUE, val |-> Base64(key.Key)]
    ELSE IF exportType = exportTypeSigningKey
            /\ policy.Type \in {KeyType_RSA2048, KeyType_RSA4096}
    THEN [ok |-> TRUE, val |-> EncodeRSAPrivateKey(key.RSAKey)]
    ELSE [ok |-> FALSE, val |-> UnknownKeyType]

getExportKey(policy, key, exportType) ==
    IF policy = NoPolicy THEN [ok |-> FALSE, val |-> "nil policy provided"]
    ELSE IF exportType = exportTypeHMACKey
    THEN [ok |-> TRUE, val |-> Base64(key.HMACKey)]
    ELSE IF exportType = exportTypeEncryptionKey /\ policy.Type = KeyType_AES256_GCM96
    THEN [ok |-> TRUE, val |-> Base64(key.Key)]
    ELSE IF exportType = exportTypeEncryptionKey
            /\ policy.Type \in {KeyType_RSA2048, KeyType_RSA4096}
    THEN [ok |-> TRUE, val |-> EncodeRSAPrivateKey(key.RSAKey)]
    ELSE IF exportType = exportTypeSigningKey /\ policy.Type = KeyType_ECDSA_P256
    THEN [ok |-> TRUE, val |-> KeyEntryToECPrivateKey(key, "P256")]
    ELSE IF exportType = exportTypeSigningKey /\ policy.Type = KeyType_ED25519
    THEN [ok |-> TRUE, val |-> Base64(key.Key)]
    ELSE IF exportType = exportTypeSigningKey
            /\ policy.Type \in {KeyType_RSA2048, KeyType_RSA4096}
    THEN [ok |-> TRUE, val |-> EncodeRSAPrivateKey(key.RSAKey)]
    ELSE [ok |-> FALSE, val |-> UnknownKeyType]

\* Policy.Map(nil, true): the whole policy in structured form.
PolicyMap(p) ==
    [name |-> p.Name,
     type |-> p.Type,
     derived |-> p.Derived,
     exportable |-> p.Exportable,
     deletion_allowed |-> p.DeletionAllowed,
     min_decryption_version |-> p.MinDecryptionVersion,
     min_encryption_version |-> p.MinEncryptionVersion,
     latest_version |-> p.LatestVersion,
     keys |-> p.Keys]

\* versionValue with latest taken from the minimum decryption version.
versionValue_LatestIsMin(p, version) ==
    IF version = latest THEN [ok |-> TRUE, val |-> p.MinDecryptionVersion]
    ELSE Atoi(TrimPrefix(version, <<"v">>))

\* The version a selector other than "" resolves to.
versionValue(p, version) ==
    IF version = latest THEN [ok |-> TRUE, val |-> p.LatestVersion]
    ELSE Atoi(TrimPrefix(version, <<"v">>))

\* checkVersion with the key looked up before the minimum is tested.
checkVersion_FoundFirst(p, v) ==
    IF v \notin DOMAIN p.Keys THEN VersionNotFound
    ELSE IF v < p.MinDecryptionVersion THEN BelowMinimumVersion
    ELSE ""

\* checkVersion without the test of the minimum.
checkVersion_NoMinimum(p, v) ==
    IF v \notin DOMAIN p.Keys THEN VersionNotFound ELSE ""

\* checkVersion with the minimum itself refused.
checkVersion_MinRefused(p, v) ==
    IF v <= p.MinDecryptionVersion THEN BelowMinimumVersion
    ELSE IF v \notin DOMAIN p.Keys THEN VersionNotFound
    ELSE ""

\* The two refusals of a resolved version, in the code's order.
checkVersion(p, v) ==
    IF v < p.MinDecryptionVersion THEN BelowMinimumVersion
    ELSE IF v \notin DOMAIN p.Keys THEN VersionNotFound
    ELSE ""

\* retKeys for the three per-key classes.
retKeys(p, exportType, version) ==
    IF version = <<>>
    THEN IF \E k \in DOMAIN p.Keys : ~getExportKey(p, p.Keys[k], exportType).ok
         THEN InternalError(UnknownKeyType)
         ELSE DataResponse("keys",
                [name |-> p.Name, type |-> p.Type,
                 keys |-> [s \in {Itoa(k) : k \in DOMAIN p.Keys} |->
                             getExportKey(p, p.Keys[Atoi(s).val], exportType).val]])
    ELSE LET vv == versionValue(p, version)
         IN  IF ~vv.ok THEN ErrorResponse(InvalidKeyVersion)
             ELSE IF checkVersion(p, vv.val) # ""
             THEN ErrorResponse(checkVersion(p, vv.val))
             ELSE IF ~getExportKey(p, p.Keys[vv.val], exportType).ok
             THEN InternalError(UnknownKeyType)
             ELSE DataResponse("keys",
                    [name |-> p.Name, type |-> p.Type,
                     keys |-> [s \in {Itoa(vv.val)} |->
                                 getExportKey(p, p.Keys[vv.val], exportType).val]])

\* pathPolicyExportRead after the exportable check: the class-support check
\* and the rendering.
exportKeys(p, exportType, version) ==
    IF exportType = exportTypeEncryptionKey /\ ~EncryptionSupported(p.Type)
    THEN ErrorResponse(EncryptionNotSupported)
    ELSE IF exportType = exportTypeSigningKey /\ ~SigningSupported(p.Type)
    THEN ErrorResponse(SigningNotSupported)
    ELSE IF exportType \in {exportTypeEncryptionKey, exportTypeSigningKey, exportTypeHMACKey}
    THEN retKeys(p, exportType, version)
    ELSE DataResponse("policy", PolicyMap(p))

\* exportBody with the exportable check made for the per-key classes only.
exportBody_AllUnchecked(p, err, exportType, version) ==
    IF err THEN InternalError(StorageError)
    ELSE IF p = NoPolicy THEN EmptyResponse
    ELSE IF ~p.Exportable /\ exportType # exportTypeAll THEN ErrorResponse(NotExportable)
    ELSE exportKeys(p, exportType, version)

\* pathPolicyExportRead from the lookup's return on: err, p == nil, the
\* exportable check, then the rest.
exportBody(p, err, exportType, version) ==
    IF err THEN InternalError(StorageError)
    ELSE IF p = NoPolicy THEN EmptyResponse
    ELSE IF ~p.Exportable THEN ErrorResponse(NotExportable)
    ELSE exportKeys(p, exportType, version)

(***************************************************************************)
(* Import.  The request's data is base64 text of a JSON object; the model  *)
(* keeps whether each decoding succeeds and the decoded map.  A decoded    *)
(* JSON value carries its dynamic type: string, bool, json.Number or nil.  *)
(***************************************************************************)
JSONString(s) == [t |-> "string", str |-> s]
JSONBool(b) == [t |-> "bool", bool |-> b]
JSONNumber(n) == [t |-> "json.Number", num |-> n]
JSONNull == [t |-> "nil"]

\* A type assertion x.(T) succeeds when the dynamic type of x is T.
TypeAssert(x, T) == x.t = T

MissingField(field) == "missing " \o field \o " in data"

Base64DecodeError == "unable to base64 decode 'data'"
JSONDecodeError == "json decode error"
TypeAssertionPanic == "interface conversion"

\* pathPolicyImportUpdate from the payload's decoding on.  The result's p is
\* the local p when the handler returns; nothing is handed to the lock
\* manager.
importPayload(p, name, data) ==
    LET payloadMap == data.map
        has(f) == f \in DOMAIN payloadMap
        fail(r) == [resp |-> r, p |-> p]
    IN  IF ~data.base64 THEN fail(ErrorResponse(Base64DecodeError))
        ELSE IF ~data.json THEN fail(InternalError(JSONDecodeError))
        ELSE IF ~has("type") THEN fail(ErrorResponse(MissingField("type")))
        ELSE IF ~TypeAssert(payloadMap["type"], "string")
        THEN fail(Panic(TypeAssertionPanic))
        ELSE IF payloadMap["type"].str \notin KeyTypes
        THEN fail(ErrorResponse(UnknownKeyType))
        ELSE IF ~has("derived") THEN fail(ErrorResponse(MissingField("derived")))
        ELSE IF ~TypeAssert(payloadMap["derived"], "bool")
        THEN fail(Panic(TypeAssertionPanic))
        ELSE IF ~has("exportable") THEN fail(ErrorResponse(MissingField("exportable")))
        ELSE IF ~TypeAssert(payloadMap["exportable"], "bool")
        THEN fail(Panic(TypeAssertionPanic))
        ELSE IF ~has("deletion_allowed")
        THEN fail(ErrorResponse(MissingField("deletion_allowed")))
        ELSE IF ~TypeAssert(payloadMap["deletion_allowed"], "bool")
        THEN fail(Panic(TypeAssertionPanic))
        ELSE IF ~has("min_decryption_version")
        THEN fail(ErrorResponse(MissingField("min_decryption_version")))
        ELSE IF ~TypeAssert(payloadMap["min_decryption_version"], "int")
        THEN fail(Panic(TypeAssertionPanic))
        ELSE IF ~has("min_encryption_version")
        THEN fail(ErrorResponse(MissingField("min_encryption_version")))
        ELSE IF ~TypeAssert(payloadMap["min_encryption_version"], "int")
        THEN fail(Panic(TypeAssertionPanic))
        ELSE [resp |-> EmptyResponse,
              p |-> [Name |-> name,
                     Type |-> payloadMap["type"].str,
                     Derived |-> payloadMap["derived"].bool,
                     Exportable |-> payloadMap["exportable"].bool,
                     DeletionAllowed |-> payloadMap["deletion_allowed"].bool,
                     MinDecryptionVersion |-> payloadMap["min_decryption_version"].num,
                     MinEncryptionVersion |-> payloadMap["min_encryption_version"].num,
                     LatestVersion |-> 0,
                     Keys |-> <<>>]]

\* importBody with the payload decoded before the policy is looked at.
importBody_DecodeFirst(p, err, name, data) ==
    IF err THEN [resp |-> InternalError(StorageError), p |-> p]
    ELSE IF ~data.base64 THEN [resp |-> ErrorResponse(Base64DecodeError), p |-> p]
    ELSE IF p # NoPolicy THEN [resp |-> ErrorResponse(AlreadyExists), p |-> p]
    ELSE importPayload(p, name, data)

\* pathPolicyImportUpdate from the lookup's return on: err, p != nil, then
\* the payload.
importBody(p, err, name, data) ==
    IF err THEN [resp |-> InternalError(StorageError), p |-> p]
    ELSE IF p # NoPolicy THEN [resp |-> ErrorResponse(AlreadyExists), p |-> p]
    ELSE importPayload(p, name, data)

(***************************************************************************)
(* Restore.  A snapshot is a generic map; timestamps are date-time text,   *)
(* binary fields are strings and the version numbers that index the key    *)
(* map are strings.                                                        *)
(***************************************************************************)
\* A time is seconds plus the digits of its fractional second (no trailing
\* zero).
RECURSIVE TrimZeros(_)
TrimZeros(ds) ==
    IF ds # <<>> /\ ds[Len(ds)] = "0" THEN TrimZeros(SubSeq(ds, 1, Len(ds) - 1))
    ELSE ds

AllDigits(s) == \A i \in 1..Len(s) : IsDigit(s[i])

\* time.Parse(time.RFC3339, s): the date-time, an optional fractional second
\* and the zone.
ParseTime(s) ==
    LET bad == [ok |-> FALSE, val |-> [sec |-> 0, frac |-> <<>>]]
    IN  IF s = <<>> \/ s[Len(s)] # "Z" THEN bad
        ELSE LET body == SubSeq(s, 1, Len(s) - 1)
                 dots == {i \in 1..Len(body) : body[i] = "."}
             IN  IF dots = {}
                 THEN IF body # <<>> /\ AllDigits(body)
                      THEN [ok |-> TRUE, val |-> [sec |-> DigitsVal(body), frac |-> <<>>]]
                      ELSE bad
                 ELSE LET d == CHOOSE i \in dots : \A j \in dots : i <= j
                          secs == SubSeq(body, 1, d - 1)
                          frac == SubSeq(body, d + 1, Len(body))
                      IN  IF secs # <<>> /\ AllDigits(secs) /\ frac # <<>> /\ AllDigits(frac)
                          THEN [ok |-> TRUE,
                                val |-> [sec |-> DigitsVal(secs), frac |-> TrimZeros(frac)]]
                          ELSE bad

\* []byte(data.(string))
StringToBytes(s) == [i \in 1..Len(s) |-> s[i]]

\* decodeHook with times kept to the second.
decodeHook_WholeSeconds(entry) ==
    LET t == ParseTime(entry.creation_time)
    IN  [ok |-> t.ok,
         val |-> [CreationTime |-> [sec |-> t.val.sec, frac |-> <<>>],
                  Key |-> StringToBytes(entry.key),
                  HMACKey |-> StringToBytes(entry.hmac_key),
                  RSAKey |-> StringToBytes(entry.rsa_key),
                  EC_D |-> StringToBytes(entry.ec_d)]]

\* decodeHook for one key entry of the snapshot.
decodeHook(entry) ==
    LET t == ParseTime(entry.creation_time)
    IN  [ok |-> t.ok,
         val |-> [CreationTime |-> t.val,
                  Key |-> StringToBytes(entry.key),
                  HMACKey |-> StringToBytes(entry.hmac_key),
                  RSAKey |-> StringToBytes(entry.rsa_key),
                  EC_D |-> StringToBytes(entry.ec_d)]]

NilBackup == [nil |-> TRUE]
EmptyBackup == [empty |-> TRUE]

DecodeError == "decode error"
MissingInput == "'backup' must be supplied"
NilPolicyPanic == "nil pointer dereference"

\* decoder.Decode(backup) into keysutil.KeyData, with weak typing: the
\* string indices of the key map become integers.
Decode(backup) ==
    IF backup = EmptyBackup THEN [ok |-> TRUE, keyData |-> [Policy |-> NoPolicy]]
    ELSE LET m == backup.policy
             idx == DOMAIN m.keys
         IN  IF \E s \in idx : ~Atoi(s).ok \/ ~decodeHook(m.keys[s]).ok
             THEN [ok |-> FALSE, keyData |-> [Policy |-> NoPolicy]]
             ELSE [ok |-> TRUE,
                   keyData |->
                     [Policy |->
                        [Name |-> m.name,
                         Type |-> m.type,
                         Derived |-> m.derived,
                         Exportable |-> m.exportable,
                         DeletionAllowed |-> m.deletion_allowed,
                         MinDecryptionVersion |-> m.min_decryption_version,
                         MinEncryptionVersion |-> m.min_encryption_version,
                         LatestVersion |-> m.latest_version,
                         Keys |-> [v \in {Atoi(s).val : s \in idx} |->
                                     decodeHook(m.keys[Itoa(v)]).val]]]]

\* The text of a time in a snapshot.
FormatTime(t) ==
    NatStr(t.sec) \o (IF t.frac = <<>> THEN <<>> ELSE <<".">> \o t.frac) \o <<"Z">>

\* The snapshot the backup endpoint produces for a policy.
Backup(P) ==
    [policy |->
       [name |-> P.Name,
        type |-> P.Type,
        derived |-> P.Derived,
        exportable |-> P.Exportable,
        deletion_allowed |-> P.DeletionAllowed,
        min_decryption_version |-> P.MinDecryptionVersion,
        min_encryption_version |-> P.MinEncryptionVersion,
        latest_version |-> P.LatestVersion,
        keys |-> [s \in {Itoa(v) : v \in DOMAIN P.Keys} |->
                    LET e == P.Keys[Atoi(s).val]
                    IN  [creation_time |-> FormatTime(e.CreationTime),
                         key |-> e.Key,
                         hmac_key |-> e.HMACKey,
                         rsa_key |-> e.RSAKey,
                         ec_d |-> e.EC_D]]]]

(***************************************************************************)
(* State.                                                                  *)
(***************************************************************************)
VARIABLES
    store,      \* the lock manager's policies, by name
    readers,    \* per name, the shared holds on its lock minus the releases
    writer,     \* per name, whether its lock is held exclusively
    pc,         \* per caller, where its request is
    req,        \* per caller, the request it last made
    p,          \* per caller, the handler's local p
    err,        \* per caller, whether the lookup returned an error
    lock,       \* per caller, the lock the lookup returned ("nil" for none)
    keyData,    \* per caller, the decoded snapshot
    resp        \* per caller, what the handler returned

vars == <<store, readers, writer, pc, req, p, err, lock, keyData, resp>>

Callers == {"c1", "c2"}

NoReq == [op |-> "none"]

NoKeyData == [Policy |-> NoPolicy]

Ready(c) == pc[c] = "idle"

\* return: the response goes back to the caller.
Return(c, r) ==
    /\ resp' = [resp EXCEPT ![c] = r]
    /\ pc' = [pc EXCEPT ![c] = "done"]

\* b.lm.GetPolicyShared(req.Storage, name): waits while the name's lock is
\* held exclusively, reads the policy and returns (p, lock, err).  A policy
\* that was found comes with its lock held shared; otherwise the lock may
\* have been given back already (lock == nil).
GetPolicyShared(c, name) ==
    /\ ~writer[name]
    /\ \E e \in BOOLEAN, held \in BOOLEAN :
          /\ (~e /\ store[name] # NoPolicy) => held
          /\ err' = [err EXCEPT ![c] = e]
          /\ p' = [p EXCEPT ![c] = IF e THEN NoPolicy ELSE store[name]]
          /\ lock' = [lock EXCEPT ![c] = IF held THEN name ELSE "nil"]
          /\ readers' = [readers EXCEPT ![name] = IF held THEN @ + 1 ELSE @]

\* The deferred unlock without the test of lock != nil.
DeferredRUnlock_NoNilTest(c) ==
    /\ readers' = [readers EXCEPT ![req[c].name] = @ - 1]
    /\ lock' = [lock EXCEPT ![c] = "nil"]

\* if lock != nil { defer lock.RUnlock() }, run when the handler returns.
DeferredRUnlock(c) ==
    /\ readers' = IF lock[c] # "nil" THEN [readers EXCEPT ![lock[c]] = @ - 1]
                  ELSE readers
    /\ lock' = [lock EXCEPT ![c] = "nil"]

(***************************************************************************)
(* export/<type>/<name>[/<version>]                                        *)
(***************************************************************************)
\* ExportCall that looks the policy up before it validates the class.
ExportCall_LookupFirst(c, requests) ==
    /\ Ready(c)
    /\ \E r \in requests :
          /\ req' = [req EXCEPT ![c] = r]
          /\ GetPolicyShared(c, r.name)
    /\ pc' = [pc EXCEPT ![c] = "export"]
    /\ UNCHANGED <<store, writer, keyData, resp>>

ExportCall(c, requests) ==
    /\ Ready(c)
    /\ \E r \in requests :
          /\ req' = [req EXCEPT ![c] = r]
          /\ IF r.type \notin {exportTypeEncryptionKey, exportTypeSigningKey,
                               exportTypeHMACKey, exportTypeAll}
             THEN /\ Return(c, ErrorResponse(InvalidExportType))
                  /\ UNCHANGED <<readers, p, err, lock>>
             ELSE /\ GetPolicyShared(c, r.name)
                  /\ pc' = [pc EXCEPT ![c] = "export"]
                  /\ UNCHANGED resp
    /\ UNCHANGED <<store, writer, keyData>>

\* ExportReturn that raises the minimum decryption version of the policy it
\* has exported.
ExportReturn_Raises(c) ==
    /\ pc[c] = "export"
    /\ Return(c, exportBody(p[c], err[c], req[c].type, req[c].version))
    /\ DeferredRUnlock(c)
    /\ store' = IF p[c] # NoPolicy
                THEN [store EXCEPT ![p[c].Name].MinDecryptionVersion = p[c].LatestVersion]
                ELSE store
    /\ UNCHANGED <<writer, req, p, err, keyData>>

ExportReturn(c) ==
    /\ pc[c] = "export"
    /\ Return(c, exportBody(p[c], err[c], req[c].type, req[c].version))
    /\ DeferredRUnlock(c)
    /\ UNCHANGED <<store, writer, req, p, err, keyData>>

(***************************************************************************)
(* import/<name>                                                           *)
(***************************************************************************)
ImportCall(c, requests) ==
    /\ Ready(c)
    /\ \E r \in requests :
          /\ req' = [req EXCEPT ![c] = r]
          /\ GetPolicyShared(c, r.name)
    /\ pc' = [pc EXCEPT ![c] = "import"]
    /\ UNCHANGED <<store, writer, keyData, resp>>

\* ImportReturn that creates the named policy before it validates the
\* payload.
ImportReturn_StoresFirst(c) ==
    /\ pc[c] = "import"
    /\ LET out == importBody(p[c], err[c], req[c].name, req[c].data)
       IN  /\ Return(c, out.resp)
           /\ p' = [p EXCEPT ![c] = out.p]
    /\ DeferredRUnlock(c)
    /\ store' = IF ~err[c] /\ p[c] = NoPolicy
                THEN [store EXCEPT ![req[c].name] =
                        Policy(req[c].name, "", FALSE, FALSE, FALSE, 0, 0, 0, {})]
                ELSE store
    /\ UNCHANGED <<writer, req, err, keyData>>

ImportReturn(c) ==
    /\ pc[c] = "import"
    /\ LET out == importBody(p[c], err[c], req[c].name, req[c].data)
       IN  /\ Return(c, out.resp)
           /\ p' = [p EXCEPT ![c] = out.p]
    /\ DeferredRUnlock(c)
    /\ UNCHANGED <<store, writer, req, err, keyData>>

(***************************************************************************)
(* restore                                                                 *)
(***************************************************************************)
\* pathRestoreUpdate up to the call of RestorePolicy.
RestoreCall(c, backups) ==
    /\ Ready(c)
    /\ \E backup \in backups :
          /\ req' = [req EXCEPT ![c] = [op |-> "restore", backup |-> backup]]
          /\ IF backup = NilBackup
             THEN /\ Return(c, ErrorResponse(MissingInput))
                  /\ UNCHANGED keyData
             ELSE IF ~Decode(backup).ok
             THEN /\ Return(c, InternalError(DecodeError))
                  /\ UNCHANGED keyData
             ELSE IF Decode(backup).keyData.Policy = NoPolicy
             THEN /\ Return(c, Panic(NilPolicyPanic))
                  /\ UNCHANGED keyData
             ELSE /\ keyData' = [keyData EXCEPT ![c] = Decode(backup).keyData]
                  /\ pc' = [pc EXCEPT ![c] = "restore"]
                  /\ UNCHANGED resp
    /\ UNCHANGED <<store, readers, writer, p, err, lock>>

\* b.lm.RestorePolicy: takes the lock of the snapshot's name exclusively.
RestoreLock(c) ==
    /\ pc[c] = "restore"
    /\ LET name == keyData[c].Policy.Name
       IN  /\ ~writer[name]
           /\ readers[name] = 0
           /\ writer' = [writer EXCEPT ![name] = TRUE]
    /\ pc' = [pc EXCEPT ![c] = "restoring"]
    /\ UNCHANGED <<store, readers, req, p, err, lock, keyData, resp>>

\* RestorePolicy that stores the snapshot's policy whatever the name holds.
RestorePolicy_Overwrites(c) ==
    /\ pc[c] = "restoring"
    /\ LET name == keyData[c].Policy.Name
       IN  /\ \E e \in BOOLEAN :
                 IF e
                 THEN /\ Return(c, InternalError(StorageError))
                      /\ UNCHANGED store
                 ELSE /\ Return(c, EmptyResponse)
                      /\ store' = [store EXCEPT ![name] = keyData[c].Policy]
           /\ writer' = [writer EXCEPT ![name] = FALSE]
    /\ UNCHANGED <<readers, req, p, err, lock, keyData>>

\* b.lm.RestorePolicy under the lock: refuses a name that has a policy,
\* else stores the snapshot's policy; gives the lock back.
RestorePolicy(c) ==
    /\ pc[c] = "restoring"
    /\ LET name == keyData[c].Policy.Name
       IN  /\ \E e \in BOOLEAN :
                 IF e
                 THEN /\ Return(c, InternalError(StorageError))
                      /\ UNCHANGED store
                 ELSE IF store[name] # NoPolicy
                 THEN /\ Return(c, InternalError(AlreadyExists))
                      /\ UNCHANGED store
                 ELSE /\ Return(c, EmptyResponse)
                      /\ store' = [store EXCEPT ![name] = keyData[c].Policy]
           /\ writer' = [writer EXCEPT ![name] = FALSE]
    /\ UNCHANGED <<readers, req, p, err, lock, keyData>>

\* The caller takes the response; it may then make its next request.
Receive(c) ==
    /\ pc[c] = "done"
    /\ pc' = [pc EXCEPT ![c] = "idle"]
    /\ req' = [req EXCEPT ![c] = NoReq]
    /\ p' = [p EXCEPT ![c] = NoPolicy]
    /\ err' = [err EXCEPT ![c] = FALSE]
    /\ keyData' = [keyData EXCEPT ![c] = NoKeyData]
    /\ resp' = [resp EXCEPT ![c] = EmptyResponse]
    /\ UNCHANGED <<store, readers, writer, lock>>

(***************************************************************************)
(* Requests.                                                               *)
(***************************************************************************)
ExportTypes ==
    {exportTypeEncryptionKey, exportTypeSigningKey, exportTypeHMACKey, exportTypeAll}

Selectors ==
    {<<>>, latest}
        \cup {Itoa(v) : v \in (0 - 1)..(MaxVersion + 1)}
        \cup {<<"v">> \o Itoa(v) : v \in 0..(MaxVersion + 1)}
        \cup {<<"x">>, <<"v">>, <<"v", "v", "1">>, <<"+", "1">>, <<"1", "x">>, <<"0", "1">>}

ExportRequest(type, name, version) ==
    [op |-> "export", type |-> type, name |-> name, version |-> version]

ExportRequests ==
    {ExportRequest(t, n, v) : t \in ExportTypes, n \in Names, v \in Selectors}
        \cup {ExportRequest("public-key", n, <<>>) : n \in Names}

Payload(kt, derived, exportable, deletionAllowed, minDec, minEnc) ==
    [base64 |-> TRUE, json |-> TRUE,
     map |-> [f \in {"type", "derived", "exportable", "deletion_allowed",
                     "min_decryption_version", "min_encryption_version"} |->
                CASE f = "type" -> JSONString(kt)
                  [] f = "derived" -> JSONBool(derived)
                  [] f = "exportable" -> JSONBool(exportable)
                  [] f = "deletion_allowed" -> JSONBool(deletionAllowed)
                  [] f = "min_decryption_version" -> JSONNumber(minDec)
                  [] f = "min_encryption_version" -> JSONNumber(minEnc)]]

ValidPayloads ==
    {Payload(kt, d, e, da, 1, 1) : kt \in KeyTypes, d \in BOOLEAN, e \in BOOLEAN, da \in BOOLEAN}

BasePayload == Payload(KeyType_AES256_GCM96, FALSE, TRUE, FALSE, 1, 1)

Without(m, f) == [g \in DOMAIN m \ {f} |-> m[g]]

BadPayloads ==
    {[BasePayload EXCEPT !.base64 = FALSE], [BasePayload EXCEPT !.json = FALSE],
     [BasePayload EXCEPT !.map = <<>>],
     Payload("chacha20", FALSE, TRUE, FALSE, 1, 1),
     Payload(KeyType_AES256_GCM96, FALSE, TRUE, FALSE, 0 - 1, MaxVersion + 1)}
        \cup {[BasePayload EXCEPT !.map = Without(BasePayload.map, f)] :
                f \in DOMAIN BasePayload.map}
        \cup {[BasePayload EXCEPT !.map[f] = JSONNull] : f \in DOMAIN BasePayload.map}
        \cup {[BasePayload EXCEPT !.map[f] = JSONString("1")] :
                f \in DOMAIN BasePayload.map \ {"type"}}

ImportRequest(name, data) == [op |-> "import", name |-> name, data |-> data]

ImportRequests ==
    {ImportRequest(n, d) : n \in Names, d \in ValidPayloads \cup BadPayloads}

\* The policies that snapshots are taken of: every key type with every
\* combination of flags, and every combination of version bounds and
\* version sets, consistent or not.
Policies ==
    {Policy("k1", kt, d, e, da, 1, 1, MaxVersion, 1..MaxVersion) :
        kt \in KeyTypes, d \in BOOLEAN, e \in BOOLEAN, da \in BOOLEAN}
        \cup {Policy("k1", KeyType_AES256_GCM96, FALSE, TRUE, FALSE, minDec, 1, lv, vs) :
                minDec \in (0 - 1)..(MaxVersion + 1), lv \in 0..MaxVersion,
                vs \in SUBSET (1..MaxVersion)}
        \cup {Policy("k2", KeyType_RSA2048, TRUE, e, TRUE, MaxVersion, MaxVersion,
                     MaxVersion, 1..MaxVersion) : e \in BOOLEAN}

BadTime(backup, s) == [backup EXCEPT !.policy.keys[s].creation_time = <<"n", "o", "w">>]

Backups ==
    {Backup(P) : P \in Policies}
        \cup {NilBackup, EmptyBackup,
              BadTime(Backup(Policy("k2", KeyType_ED25519, FALSE, TRUE, FALSE, 1, 1, 1, {1})),
                      <<"1">>)}

(***************************************************************************)
(* One caller at a time, with every request.                               *)
(***************************************************************************)
Init ==
    /\ store = [n \in Names |-> NoPolicy]
    /\ readers = [n \in Names |-> 0]
    /\ writer = [n \in Names |-> FALSE]
    /\ pc = [c \in Callers |-> "idle"]
    /\ req = [c \in Callers |-> NoReq]
    /\ p = [c \in Callers |-> NoPolicy]
    /\ err = [c \in Callers |-> FALSE]
    /\ lock = [c \in Callers |-> "nil"]
    /\ keyData = [c \in Callers |-> NoKeyData]
    /\ resp = [c \in Callers |-> EmptyResponse]

Next ==
    \E c \in {"c1"} :
        \/ ExportCall(c, ExportRequests)
        \/ ExportReturn(c)
        \/ ImportCall(c, ImportRequests)
        \/ ImportReturn(c)
        \/ RestoreCall(c, Backups)
        \/ RestoreLock(c)
        \/ RestorePolicy(c)
        \/ Receive(c)

Spec == Init /\ [][Next]_vars

(***************************************************************************)
(* Concurrent callers, with a few requests of each kind.                   *)
(***************************************************************************)
ConcPolicies ==
    {Policy(n, KeyType_AES256_GCM96, FALSE, e, FALSE, 1, 1, MaxVersion, 1..MaxVersion) :
        n \in Names, e \in BOOLEAN}

ConcBackups == {Backup(P) : P \in ConcPolicies} \cup {NilBackup}

ConcExportRequests ==
    {ExportRequest(exportTypeEncryptionKey, n, latest) : n \in Names}
        \cup {ExportRequest(exportTypeAll, n, <<>>) : n \in Names}
        \cup {ExportRequest(exportTypeSigningKey, "k1", <<>>),
              ExportRequest(exportTypeHMACKey, "k1", <<"0">>),
              ExportRequest(exportTypeHMACKey, "k2", <<"x">>),
              ExportRequest("public-key", "k1", <<>>)}

ConcImportRequests ==
    {ImportRequest(n, BasePayload) : n \in Names}
        \cup {ImportRequest("k1", [BasePayload EXCEPT !.base64 = FALSE]),
              ImportRequest("k2", [BasePayload EXCEPT !.map = Without(BasePayload.map, "derived")])}

NextConc ==
    \E c \in Callers :
        \/ ExportCall(c, ConcExportRequests)
        \/ ExportReturn(c)
        \/ ImportCall(c, ConcImportRequests)
        \/ ImportReturn(c)
        \/ RestoreCall(c, ConcBackups)
        \/ RestoreLock(c)
        \/ RestorePolicy(c)
        \/ Receive(c)

SpecConc == Init /\ [][NextConc]_vars

(***************************************************************************)
(* Properties.                                                             *)
(***************************************************************************)
Done(c, op) == pc[c] = "done" /\ req[c].op = op

Success(r) == r.kind \in {"empty", "keys", "policy"}

\* C1: When every caller has completed an Import of the same name with a
\* valid payload, each got success or AlreadyExists, at most one got
\* success, one did if some caller found the name free, and the name then
\* holds a policy.
C1_OneImportWins ==
    \A n \in Names :
        LET I == {c \in Callers : /\ Done(c, "import")
                                  /\ req[c].name = n
                                  /\ req[c].data \in ValidPayloads
                                  /\ ~err[c]}
        IN  I = Callers =>
              /\ \A c \in I : resp[c] \in {EmptyResponse, ErrorResponse(AlreadyExists)}
              /\ Cardinality({c \in I : resp[c] = EmptyResponse}) <= 1
              /\ (\E c \in I : resp[c] # ErrorResponse(AlreadyExists))
                    => \E c \in I : resp[c] = EmptyResponse
              /\ store[n] # NoPolicy

\* C2: An Import of a name that has a policy returns AlreadyExists whatever
\* its payload, and the name holds the policy the lookup found.
C2_ImportExistingRefused ==
    \A c \in Callers :
        (Done(c, "import") /\ ~err[c] /\ store[req[c].name] # NoPolicy) =>
            /\ resp[c] = ErrorResponse(AlreadyExists)
            /\ store[req[c].name] = p[c]

C2_Witness ==
    \E c \in Callers :
        /\ Done(c, "import")
        /\ ~req[c].data.base64
        /\ store[req[c].name] # NoPolicy
        /\ resp[c] = ErrorResponse(AlreadyExists)

\* C3: A completed Import of a free name with a valid payload whose
\* exportable flag is set has succeeded, and Export of class all on the name
\* then gives a policy map with the imported derived, exportable and
\* deletion_allowed flags.
C3_ImportThenExportAll ==
    \A c \in Callers :
        (/\ Done(c, "import")
         /\ ~err[c]
         /\ req[c].data \in ValidPayloads
         /\ req[c].data.map["exportable"].bool
         /\ resp[c] # ErrorResponse(AlreadyExists)) =>
            LET m == req[c].data.map
                e == exportBody(store[req[c].name], FALSE, exportTypeAll, <<>>)
            IN  /\ Success(resp[c])
                /\ e.kind = "policy"
                /\ e.data.derived = m["derived"].bool
                /\ e.data.exportable = m["exportable"].bool
                /\ e.data.deletion_allowed = m["deletion_allowed"].bool

\* C4: An Export of a policy that is not exportable returns NotExportable,
\* with no data, for every export class and every version selector.
C4_NotExportableRefused ==
    \A c \in Callers :
        (/\ Done(c, "export")
         /\ req[c].type \in ExportTypes
         /\ ~err[c]
         /\ p[c] # NoPolicy
         /\ ~p[c].Exportable) =>
            resp[c] = [kind |-> "error", msg |-> NotExportable, data |-> NoData]

C4_Witness ==
    \E c \in Callers :
        /\ Done(c, "export")
        /\ req[c].type = exportTypeAll
        /\ req[c].version = <<"v", "v", "1">>
        /\ p[c] # NoPolicy
        /\ ~p[c].Exportable
        /\ resp[c] = ErrorResponse(NotExportable)

\* The selectors that name version v of policy q: latest for its latest
\* version, the integer, and the integer with the prefix v.
Selects(q, selector, v) ==
    \/ selector = latest /\ v = q.LatestVersion
    \/ selector = Itoa(v)
    \/ selector = <<"v">> \o Itoa(v)

\* The per-key class is one the policy's key type supports.
ClassSupported(q, type) ==
    \/ type = exportTypeHMACKey
    \/ type = exportTypeEncryptionKey /\ q.Type \in {"aes256-gcm96", "rsa-2048", "rsa-4096"}
    \/ type = exportTypeSigningKey /\ q.Type \in {"ecdsa-p256", "ed25519", "rsa-2048", "rsa-4096"}

\* C5: For an exportable policy and a class its key type supports, a
\* selector that names a version below min_decryption_version is refused
\* with BelowMinimumVersion whether or not the version exists, and one that
\* names an existing version at or above it returns exactly that version.
C5_MinimumVersion ==
    \A c \in Callers :
        (/\ Done(c, "export")
         /\ ~err[c]
         /\ p[c] # NoPolicy
         /\ p[c].Exportable
         /\ ClassSupported(p[c], req[c].type)) =>
            \A v \in (0 - 1)..(MaxVersion + 1) :
                Selects(p[c], req[c].version, v) =>
                    /\ v < p[c].MinDecryptionVersion
                          => resp[c] = ErrorResponse(BelowMinimumVersion)
                    /\ (v >= p[c].MinDecryptionVersion /\ v \in DOMAIN p[c].Keys)
                          => /\ resp[c].kind = "keys"
                             /\ DOMAIN resp[c].data.keys = {Itoa(v)}

C5_Witness ==
    \E c \in Callers :
        /\ Done(c, "export")
        /\ req[c].type = exportTypeEncryptionKey
        /\ req[c].version = Itoa(MaxVersion - 1)
        /\ p[c] # NoPolicy
        /\ DOMAIN p[c].Keys = 1..MaxVersion
        /\ p[c].MinDecryptionVersion = MaxVersion
        /\ resp[c] = ErrorResponse(BelowMinimumVersion)

\* C6: For an exportable policy in the store, Export with the selector
\* latest succeeds for every class the policy's key type supports.
C6_LatestSucceeds ==
    \A c \in Callers :
        (/\ Done(c, "export")
         /\ ~err[c]
         /\ p[c] # NoPolicy
         /\ p[c].Exportable
         /\ ClassSupported(p[c], req[c].type)
         /\ req[c].version = latest) =>
            resp[c].kind = "keys"

C8_NeverReplaced ==
    [][/\ \A n \in Names : store[n] # NoPolicy => store'[n] = store[n]
       /\ \A c \in Callers :
             (/\ pc[c] = "restoring"
              /\ pc'[c] = "done"
              /\ store[keyData[c].Policy.Name] # NoPolicy) =>
                 /\ resp'[c] \in {InternalError(AlreadyExists), InternalError(StorageError)}
                 /\ store' = store]_vars

C8_Witness ==
    \E c \in Callers :
        /\ Done(c, "restore")
        /\ resp[c] = InternalError(AlreadyExists)
        /\ store[keyData[c].Policy.Name] # NoPolicy
        /\ store[keyData[c].Policy.Name] # keyData[c].Policy

\* C9: The shared holds on a name's lock are exactly the locks the handlers
\* in flight got from their lookup, the lock is held exclusively exactly
\* while a Restore is storing under the name, and when no call is in flight
\* every lock is free, so that an exclusive acquisition can proceed.
C9_LocksReleased ==
    /\ \A n \in Names :
          /\ readers[n] = Cardinality({c \in Callers : lock[c] = n})
          /\ writer[n] <=> \E c \in Callers :
                              pc[c] = "restoring" /\ keyData[c].Policy.Name = n
          /\ ~(writer[n] /\ readers[n] > 0)
    /\ \A c \in Callers : lock[c] # "nil" => pc[c] \in {"export", "import"}
    /\ (\A c \in Callers : pc[c] \in {"idle", "done"}) =>
          \A n \in Names : readers[n] = 0 /\ ~writer[n]

C9_Witness ==
    /\ \A c \in Callers : pc[c] = "done"
    /\ \E c \in Callers : req[c].op = "import" /\ resp[c] = ErrorResponse(AlreadyExists)
    /\ \E c \in Callers : req[c].op = "export" /\ resp[c].kind = "error" /\ p[c] # NoPolicy
    /\ \A n \in Names : readers[n] = 0 /\ ~writer[n]

\* C10: A step of an Export, its call or its return with any outcome,
\* leaves every name's policy as it was.
C10_ExportReadsOnly ==
    [][(\E c \in Callers :
          \/ pc[c] = "export" /\ pc'[c] = "done"
          \/ pc[c] = "idle" /\ pc'[c] # "idle" /\ req'[c].op = "export")
         => store' = store]_vars

C10_Witness ==
    \E c \in Callers :
        /\ Done(c, "export")
        /\ resp[c].kind = "keys"
        /\ Cardinality(DOMAIN resp[c].data.keys) = MaxVersion
        /\ store[req[c].name] = p[c]

PolicyFields ==
    {"Name", "Type", "Derived", "Exportable", "DeletionAllowed", "MinDecryptionVersion",
     "MinEncryptionVersion", "LatestVersion", "Keys"}

\* C11: A step in which an Import or a Restore returns anything but success
\* leaves the store as it was, and the only change a step makes to the store
\* is to put, under a free name, the whole policy decoded from the snapshot
\* of a Restore that returns success.
C11_AllOrNothing ==
    [][/\ \A c \in Callers :
             (/\ pc[c] # "done"
              /\ pc'[c] = "done"
              /\ req'[c].op \in {"import", "restore"}
              /\ ~Success(resp'[c])) => store' = store
       /\ \A n \in Names :
             store'[n] # store[n] =>
                /\ store[n] = NoPolicy
                /\ DOMAIN store'[n] = PolicyFields
                /\ \E c \in Callers :
                      /\ pc[c] = "restoring"
                      /\ resp'[c] = EmptyResponse
                      /\ store'[n] = Decode(req[c].backup).keyData.Policy]_vars

C11_Witness ==
    \E c \in Callers :
        /\ Done(c, "import")
        /\ resp[c] = ErrorResponse(MissingField("exportable"))
        /\ store[req[c].name] = NoPolicy
        /\ \E n \in Names : store[n] # NoPolicy

RequiredFields ==
    {"derived", "exportable", "deletion_allowed", "min_decryption_version",
     "min_encryption_version"}

\* C12: An Import of a free name whose payload decodes, has a known type and
\* lacks a required field returns MissingField for a field that is absent,
\* whatever the fields that are present hold.
C12_MissingFieldReported ==
    \A c \in Callers :
        (/\ Done(c, "import")
         /\ ~err[c]
         /\ resp[c] # ErrorResponse(AlreadyExists)
         /\ req[c].data.base64
         /\ req[c].data.json
         /\ "type" \in DOMAIN req[c].data.map
         /\ req[c].data.map["type"].t = "string"
         /\ req[c].data.map["type"].str \in KeyTypes
         /\ RequiredFields \ DOMAIN req[c].data.map # {}) =>
            \E f \in RequiredFields \ DOMAIN req[c].data.map :
                resp[c] = ErrorResponse(MissingField(f))

\* The version bounds of a policy contradict each other.
Inconsistent(q) ==
    \/ q.MinDecryptionVersion < 0
    \/ q.MinEncryptionVersion < 0
    \/ q.MinDecryptionVersion > q.LatestVersion
    \/ q.MinEncryptionVersion > q.LatestVersion

\* C13: No Import with a negative bound and no Restore of a snapshot with
\* inconsistent bounds returns success, and no name holds a policy with
\* inconsistent bounds.
C13_InconsistentRejected ==
    /\ \A n \in Names : store[n] # NoPolicy => ~Inconsistent(store[n])
    /\ \A c \in Callers :
          /\ (/\ Done(c, "restore")
              /\ "policy" \in DOMAIN req[c].backup
              /\ \/ req[c].backup.policy.min_decryption_version < 0
                 \/ req[c].backup.policy.min_encryption_version < 0
                 \/ req[c].backup.policy.min_decryption_version
                        > req[c].backup.policy.latest_version
                 \/ req[c].backup.policy.min_encryption_version
                        > req[c].backup.policy.latest_version) => ~Success(resp[c])
          /\ (/\ Done(c, "import")
              /\ \E f \in {"min_decryption_version", "min_encryption_version"} :
                    /\ f \in DOMAIN req[c].data.map
                    /\ req[c].data.map[f].t = "json.Number"
                    /\ req[c].data.map[f].num < 0) => ~Success(resp[c])

\* The latest version of a policy is the highest of its versions, of which
\* there is at least one.
LatestIsMax(q) ==
    /\ DOMAIN q.Keys # {}
    /\ q.LatestVersion \in DOMAIN q.Keys
    /\ \A v \in DOMAIN q.Keys : v <= q.LatestVersion

\* C14: Every policy a name holds, every policy decoded by a Restore and
\* every policy built by an Import that returned success has its latest
\* version equal to the highest of its versions and has a version.
C14_LatestIsMaxVersion ==
    /\ \A n \in Names : store[n] # NoPolicy => LatestIsMax(store[n])
    /\ \A c \in Callers :
          /\ keyData[c].Policy # NoPolicy => LatestIsMax(keyData[c].Policy)
          /\ (Done(c, "import") /\ Success(resp[c])) => LatestIsMax(p[c])

\* C15: A Restore with no snapshot or with a snapshot that has no entries
\* returns MissingInput.
C15_EmptySnapshotRejected ==
    \A c \in Callers :
        (Done(c, "restore") /\ req[c].backup \in {NilBackup, EmptyBackup}) =>
            resp[c] = ErrorResponse(MissingInput)

PerKeyTypes == {exportTypeEncryptionKey, exportTypeSigningKey, exportTypeHMACKey}

\* C16: An Export whose class is not one of the four returns the invalid
\* export type error in the step that receives it, with no lookup and no
\* lock taken, whether or not the name holds a policy; an Export of a valid
\* class whose lookup found no policy and met no storage error returns the
\* empty result, whatever the selector, and holds no lock afterwards.
C16_AbsentAndUnknownClass ==
    [][\A c \in Callers :
          /\ (/\ pc[c] = "idle"
              /\ pc'[c] # "idle"
              /\ req'[c].op = "export"
              /\ req'[c].type \notin ExportTypes) =>
                 /\ pc'[c] = "done"
                 /\ resp'[c] = ErrorResponse(InvalidExportType)
                 /\ readers' = readers
                 /\ lock' = lock
                 /\ writer' = writer
                 /\ p' = p
          /\ (/\ pc[c] = "export"
              /\ pc'[c] = "done"
              /\ ~err[c]
              /\ store[req[c].name] = NoPolicy) =>
                 /\ req[c].type \in ExportTypes
                 /\ resp'[c] = EmptyResponse
                 /\ lock'[c] = "nil"
                 /\ readers'[req[c].name] = 0]_vars

C16_Witness ==
    \E c \in Callers :
        /\ Done(c, "export")
        /\ req[c].type \notin ExportTypes
        /\ store[req[c].name] # NoPolicy
        /\ resp[c] = ErrorResponse(InvalidExportType)

C16_WitnessAbsent ==
    \E c \in Callers :
        /\ Done(c, "export")
        /\ req[c].type = exportTypeSigningKey
        /\ req[c].version = <<"x">>
        /\ store[req[c].name] = NoPolicy
        /\ resp[c] = EmptyResponse

\* C17: A successful Export of a per-key class answers with the policy's
\* name and type; its keys are indexed, with no selector, by the decimal
\* strings of all the policy's versions and, with a selector, by the one
\* string of the version selected, where latest selects latest_version and
\* v<n> selects what <n> selects.
C17_ReturnedKeySet ==
    \A c \in Callers :
        (Done(c, "export") /\ resp[c].kind = "keys") =>
            /\ req[c].type \in PerKeyTypes
            /\ resp[c].data.name = p[c].Name
            /\ resp[c].data.type = p[c].Type
            /\ req[c].version = <<>> =>
                  DOMAIN resp[c].data.keys = {Itoa(v) : v \in DOMAIN p[c].Keys}
            /\ req[c].version # <<>> =>
                  /\ Cardinality(DOMAIN resp[c].data.keys) = 1
                  /\ DOMAIN resp[c].data.keys \subseteq {Itoa(v) : v \in DOMAIN p[c].Keys}
                  /\ \A v \in (0 - 1)..(MaxVersion + 1) :
                        Selects(p[c], req[c].version, v) =>
                            DOMAIN resp[c].data.keys = {Itoa(v)}

C17_Witness ==
    \E c \in Callers :
        /\ Done(c, "export")
        /\ req[c].version = latest
        /\ resp[c].kind = "keys"
        /\ p[c].MinDecryptionVersion < p[c].LatestVersion
        /\ p[c].MinDecryptionVersion \in DOMAIN p[c].Keys
        /\ DOMAIN resp[c].data.keys = {Itoa(p[c].LatestVersion)}

\* The versions a selector stands for: latest, a decimal integer with an
\* optional sign and leading zeros, and either with one v in front.
Resolved(q, selector) ==
    {v \in (0 - 1)..(MaxVersion + 1) :
        \/ Selects(q, selector, v)
        \/ selector \in {<<"+">> \o Itoa(v), <<"0">> \o Itoa(v)}}

NoRefusal == [kind |-> "ok"]

\* The refusal the fixed precedence gives a request on policy q.
Refusal(q, r) ==
    IF r.type \notin ExportTypes THEN ErrorResponse(InvalidExportType)
    ELSE IF q = NoPolicy THEN EmptyResponse
    ELSE IF ~q.Exportable THEN ErrorResponse(NotExportable)
    ELSE IF r.type = exportTypeEncryptionKey /\ ~ClassSupported(q, r.type)
    THEN ErrorResponse(EncryptionNotSupported)
    ELSE IF r.type = exportTypeSigningKey /\ ~ClassSupported(q, r.type)
    THEN ErrorResponse(SigningNotSupported)
    ELSE IF r.type = exportTypeAll \/ r.version = <<>> THEN NoRefusal
    ELSE IF Resolved(q, r.version) = {} THEN ErrorResponse(InvalidKeyVersion)
    ELSE IF \E v \in Resolved(q, r.version) : v < q.MinDecryptionVersion
    THEN ErrorResponse(BelowMinimumVersion)
    ELSE IF \E v \in Resolved(q, r.version) : v \notin DOMAIN q.Keys
    THEN ErrorResponse(VersionNotFound)
    ELSE NoRefusal

\* C18: An Export whose lookup met no storage error is answered with the
\* first refusal that applies in the order invalid class, not found, not
\* exportable, class not supported, invalid selector, below the minimum,
\* version not found, and with key material or the policy map when none
\* applies.
C18_RefusalPrecedence ==
    \A c \in Callers :
        (Done(c, "export") /\ ~err[c]) =>
            IF Refusal(p[c], req[c]) = NoRefusal
            THEN resp[c].kind \in {"keys", "policy"}
            ELSE resp[c] = Refusal(p[c], req[c])

C18_Witness ==
    \E c \in Callers :
        /\ Done(c, "export")
        /\ req[c].version = Itoa(0)
        /\ p[c] # NoPolicy
        /\ 0 \notin DOMAIN p[c].Keys
        /\ p[c].MinDecryptionVersion >= 1
        /\ resp[c] = ErrorResponse(BelowMinimumVersion)

C18_WitnessNotExportable ==
    \E c \in Callers :
        /\ Done(c, "export")
        /\ req[c].type = exportTypeSigningKey
        /\ p[c] # NoPolicy
        /\ ~p[c].Exportable
        /\ ~ClassSupported(p[c], req[c].type)
        /\ resp[c] = ErrorResponse(NotExportable)

\* C19 as stated: every version in the keys an Export returns is at or
\* above min_decryption_version, for every selector and for none.
C19_NoKeyBelowMinimum ==
    \A c \in Callers :
        (Done(c, "export") /\ resp[c].kind = "keys") =>
            \A v \in DOMAIN p[c].Keys :
                Itoa(v) \in DOMAIN resp[c].data.keys => v >= p[c].MinDecryptionVersion

\* C19: With a version selector, every version in the keys an Export
\* returns is at or above min_decryption_version; with no selector the keys
\* returned are those of all the policy's versions, below the minimum or
\* not.
C19_SelectedNotBelowMinimum ==
    \A c \in Callers :
        (Done(c, "export") /\ resp[c].kind = "keys") =>
            /\ req[c].version # <<>> =>
                  \A v \in DOMAIN p[c].Keys :
                      Itoa(v) \in DOMAIN resp[c].data.keys
                          => v >= p[c].MinDecryptionVersion
            /\ req[c].version = <<>> =>
                  \A v \in DOMAIN p[c].Keys : Itoa(v) \in DOMAIN resp[c].data.keys

C19_Witness ==
    \E c \in Callers :
        /\ Done(c, "export")
        /\ req[c].version = <<>>
        /\ resp[c].kind = "keys"
        /\ \E v \in DOMAIN p[c].Keys :
              /\ v < p[c].MinDecryptionVersion
              /\ Itoa(v) \in DOMAIN resp[c].data.keys

C19_WitnessSelected ==
    \E c \in Callers :
        /\ Done(c, "export")
        /\ req[c].version = <<"v">> \o Itoa(MaxVersion)
        /\ resp[c].kind = "keys"
        /\ p[c].MinDecryptionVersion = MaxVersion
        /\ 1 \in DOMAIN p[c].Keys

\* C20: An Export of a per-key class on an exportable policy whose key type
\* supports the class never ends in the internal unknown key type error,
\* and an Export of hmac-key on an exportable policy never does for any key
\* type.
C20_RenderingRuleFound ==
    \A c \in Callers :
        (/\ Done(c, "export")
         /\ ~err[c]
         /\ p[c] # NoPolicy
         /\ p[c].Exportable
         /\ req[c].type \in PerKeyTypes) =>
            /\ p[c].Type \in KeyTypes
            /\ ClassSupported(p[c], req[c].type) =>
                  /\ resp[c].kind # "internal"
                  /\ resp[c].msg # UnknownKeyType
            /\ ~ClassSupported(p[c], req[c].type) =>
                  resp[c] \in {ErrorResponse(EncryptionNotSupported),
                               ErrorResponse(SigningNotSupported)}

C20_Witness ==
    \E c \in Callers :
        /\ Done(c, "export")
        /\ req[c].type = exportTypeEncryptionKey
        /\ req[c].version = <<>>
        /\ p[c] # NoPolicy
        /\ p[c].Type = KeyType_RSA4096
        /\ resp[c].kind = "keys"

====
